---- MODULE Spec2Model ----
(***************************************************************************)
(* Model of the humanRadar radar panel (radar_panel.c, the unnamed source  *)
(* part_000): the grid, the sweep with its trailing shadows and animation, *)
(* and the person markers, drawn on an LVGL display surface.               *)
(*                                                                         *)
(* Functions of the source are operators that transform a record of the    *)
(* program's memory (globals, display objects, sweep structures, pending   *)
(* animations); the actions are the calls the application and the LVGL     *)
(* timer make.  Floating point values are kept as exact integers: cosf and *)
(* sinf are tabulated from their float32 values scaled by TrigScale, and   *)
(* the (int16_t) conversion truncates toward zero; for the radii and      *)
(* targets explored this reproduces the float32 results exactly.          *)
(***************************************************************************)
EXTENDS Integers, Sequences, FiniteSets, TLC

\* ---------------------------------------------------------------- bounds
MaxScreens == 1     \* calls of lv_radar_screen_create explored
MaxSweeps  == 1     \* sweep structures allocated
MaxIcons   == 3     \* marker icons created
AnimTicks  == 2     \* timer ticks the animation takes from 0 to 180 degrees

\* ------------------------------------------------------ program constants
MaxAngle      == 180   \* if (angle > 180) angle = 180
SHADOW_COUNT  == 5     \* shadow_count, shadow_lines[5]
ShadowStep    == 8     \* (i + 1) * 8
OpaStep       == 50    \* 255 - (i * 50)
OpaCover      == 255
IconHalf      == 8     \* marker_x - 8
Margin        == 10    \* radius = height - 10
GridBands     == 4     \* lv_radar_screen_draw(radar_cont, 4, 9)
GridLines     == 9
PanelBands    == 4     \* lv_radar_add_markers(radar, 4, markers, 2)
MarkerSlots   == 2     \* lv_radar_marker_t markers[2]
MetersPerBand == 2     \* band_count * 2.0f
TrigScale     == 1000000
DistScale     == 10    \* marker distances are kept in tenths of a meter
NULL          == 0

\* ------------------------------------------------------------ input sets
Sizes       == { <<480, 320>>, <<100, 50>> }
\* screens too low for a positive radius (radius = height - 10)
BadSizes    == { <<100, 10>>, <<100, 4>> }
\* band_count of a direct call of lv_radar_screen_draw
BandCounts  == { 0, GridBands }
AngleInputs == { 10, 181, 65535 }
Targets     == { [distance |-> 40, angle |-> 0],
                 [distance |-> 45, angle |-> 120] }
\* the target snapshots the application copies into its marker array
Snapshots   == { << [distance |-> 40, angle |-> 0], [distance |-> 45, angle |-> 120] >>,
                 << [distance |-> 45, angle |-> 120], [distance |-> 40, angle |-> 0] >> }
AppTargets  == << [distance |-> 40, angle |-> 0], [distance |-> 45, angle |-> 120] >>
PanelTargets == << [distance |-> 25, angle |-> 45],
                   [distance |-> 45, angle |-> 120] >>

VARIABLES
    center_x, center_y, radius,   \* static int16_t center_x, center_y, radius
    objs,        \* the display surface: handle h is objs[h]
    sweeps,      \* the lv_radar_sweep_t structures malloc'ed so far
    anims,       \* anims[s]: the LVGL animation started for sweeps[s]
    markers,     \* the caller's lv_radar_marker_t array
    radar_cont,  \* the caller's handle of the radar container (NULL: none)
    faults,      \* kinds of undefined behaviour executed so far
    crashed,     \* the program was ended by one of them
    lastOp,      \* the last call that made the screen or took the marker array, and its count
    nScreens,    \* calls of lv_radar_screen_create so far
    sensor       \* sensor_task: where it is and what its calls returned

vars == << center_x, center_y, radius, objs, sweeps, anims, markers,
           radar_cont, faults, crashed, lastOp, nScreens, sensor >>

\* ------------------------------------------------------------ arithmetic
TruncDiv(n, d) == IF (n >= 0) = (d > 0) THEN (IF n >= 0 THEN n \div d ELSE (-n) \div (-d))
                  ELSE -(IF n >= 0 THEN n \div (-d) ELSE (-n) \div d)

Int16(v) == ((v + 32768) % 65536) - 32768

UInt8(v) == v % 256

UInt16(v) == v % 65536

Abs(v) == IF v < 0 THEN -v ELSE v

\* (int16_t)((n / d) * (c / TrigScale)) for d > 0: the product of a quantity
\* n / d and a tabulated cosine or sine c, truncated toward zero.  The steps
\* keep every intermediate value within 32 bits.
ScaledTrunc(n, c, d) ==
    LET sign == IF (n >= 0) = (c >= 0) THEN 1 ELSE -1
        q    == Abs(n) \div d
        rho  == Abs(n) % d
        m    == (q * Abs(c)) + ((rho * Abs(c)) \div d)
    IN Int16(sign * (m \div TrigScale))

CosTab ==
    <<
       1000000, 999847, 999390, 998629, 997564, 996194, 994521, 992546,
       990268, 987688, 984807, 981627, 978147, 974370, 970295, 965925,
       961261, 956304, 951056, 945518, 939692, 933580, 927183, 920504,
       913545, 906307, 898794, 891006, 882947, 874619, 866025, 857167,
       848048, 838670, 829037, 819152, 809017, 798635, 788010, 777145,
       766044, 754709, 743144, 731353, 719339, 707106, 694658, 681998,
       669130, 656059, 642787, 629320, 615661, 601815, 587785, 573576,
       559192, 544638, 529919, 515038, 499999, 484809, 469471, 453990,
       438371, 422618, 406736, 390731, 374606, 358367, 342020, 325568,
       309016, 292371, 275637, 258819, 241921, 224951, 207911, 190808,
       173648, 156434, 139173, 121869, 104528, 87155, 69756, 52335,
       34899, 17452, 0, -17452, -34899, -52335, -69756, -87155,
       -104528, -121869, -139173, -156434, -173648, -190809, -207911, -224950,
       -241921, -258819, -275637, -292371, -309017, -325568, -342020, -358367,
       -374606, -390731, -406736, -422618, -438371, -453990, -469471, -484809,
       -500000, -515038, -529919, -544639, -559192, -573576, -587785, -601815,
       -615661, -629320, -642787, -656058, -669130, -681998, -694658, -707106,
       -719339, -731353, -743144, -754709, -766044, -777145, -788010, -798635,
       -809017, -819152, -829037, -838670, -848048, -857167, -866025, -874619,
       -882947, -891006, -898794, -906307, -913545, -920504, -927183, -933580,
       -939692, -945518, -951056, -956304, -961261, -965925, -970295, -974370,
       -978147, -981627, -984807, -987688, -990268, -992546, -994521, -996194,
       -997564, -998629, -999390, -999847, -1000000
    >>

SinTab ==
    <<
       0, 17452, 34899, 52335, 69756, 87155, 104528, 121869,
       139173, 156434, 173648, 190808, 207911, 224951, 241921, 258819,
       275637, 292371, 309017, 325568, 342020, 358367, 374606, 390731,
       406736, 422618, 438371, 453990, 469471, 484809, 500000, 515038,
       529919, 544639, 559192, 573576, 587785, 601814, 615661, 629320,
       642787, 656059, 669130, 681998, 694658, 707106, 719339, 731353,
       743144, 754709, 766044, 777145, 788010, 798635, 809017, 819152,
       829037, 838670, 848048, 857167, 866025, 874619, 882947, 891006,
       898794, 906307, 913545, 920504, 927183, 933580, 939692, 945518,
       951056, 956304, 961261, 965925, 970295, 974370, 978147, 981627,
       984807, 987688, 990268, 992546, 994521, 996194, 997564, 998629,
       999390, 999847, 1000000, 999847, 999390, 998629, 997564, 996194,
       994521, 992546, 990268, 987688, 984807, 981627, 978147, 974370,
       970295, 965925, 961261, 956304, 951056, 945518, 939692, 933580,
       927183, 920504, 913545, 906307, 898794, 891006, 882947, 874619,
       866025, 857167, 848048, 838670, 829037, 819151, 809017, 798635,
       788010, 777146, 766044, 754709, 743144, 731353, 719339, 707106,
       694658, 681998, 669130, 656058, 642787, 629320, 615661, 601815,
       587785, 573576, 559192, 544639, 529919, 515038, 500000, 484809,
       469471, 453990, 438371, 422618, 406736, 390731, 374606, 358367,
       342020, 325568, 309017, 292371, 275637, 258819, 241921, 224951,
       207911, 190809, 173648, 156434, 139173, 121869, 104528, 87155,
       69756, 52336, 34899, 17452, 0
    >>

GridCosTab ==
    <<
       1000000, 923879, 707106, 382683, 0, -382683, -707106, -923879,
       -1000000
    >>

GridSinTab ==
    <<
       0, 382683, 707106, 923879, 1000000, 923879, 707106, 382683,
       0
    >>

\* cosf / sinf of an angle in whole degrees, scaled by TrigScale.  The tables
\* hold 0..180; the other angles an uint16_t can hold are reduced by symmetry.
CosQ(a) == LET r == a % 360 IN IF r <= 180 THEN CosTab[r + 1] ELSE CosTab[(360 - r) + 1]

SinQ(a) == LET r == a % 360 IN IF r <= 180 THEN SinTab[r + 1] ELSE -SinTab[(360 - r) + 1]

\* center + (int16_t)(radius * cosf(angle_rad)), center - (int16_t)(radius * sinf(angle_rad))
EndX(cx, r, a) == Int16(cx + ScaledTrunc(r, CosQ(a), 1))

EndY(cy, r, a) == Int16(cy - ScaledTrunc(r, SinQ(a), 1))

\* ------------------------------------------------------- display surface
NewObj(kind) ==
    [kind |-> kind, live |-> TRUE, x0 |-> 0, y0 |-> 0, x |-> 0, y |-> 0,
     w |-> 0, h |-> 0, opa |-> OpaCover, dels |-> 0]

Fault(st, kind) == [st EXCEPT !.faults = @ \cup {kind}, !.ub = TRUE]

\* what is wrong with handing handle h to the display surface
Misuse(st, h) ==
    IF h = NULL THEN "null_handle"
    ELSE IF h > Len(st.objs) \/ ~st.objs[h].live THEN "stale_handle"
    ELSE "none"

lv_obj_create(st, kind) == [st EXCEPT !.objs = Append(@, NewObj(kind))]

lv_line_set_points(st, h, ax, ay, bx, by) ==
    IF Misuse(st, h) # "none" THEN Fault(st, Misuse(st, h))
    ELSE [st EXCEPT !.objs[h].x0 = ax, !.objs[h].y0 = ay,
                    !.objs[h].x = bx, !.objs[h].y = by]

lv_obj_set_pos(st, h, px, py) ==
    IF Misuse(st, h) # "none" THEN Fault(st, Misuse(st, h))
    ELSE [st EXCEPT !.objs[h].x = px, !.objs[h].y = py]

lv_obj_set_size(st, h, pw, ph) ==
    IF Misuse(st, h) # "none" THEN Fault(st, Misuse(st, h))
    ELSE [st EXCEPT !.objs[h].w = pw, !.objs[h].h = ph]

lv_obj_set_style_line_opa(st, h, opa) ==
    IF Misuse(st, h) # "none" THEN Fault(st, Misuse(st, h))
    ELSE [st EXCEPT !.objs[h].opa = opa]

\* a deleted object keeps nothing but the count of its deletions
lv_obj_del(st, h) ==
    IF Misuse(st, h) # "none" THEN Fault(st, Misuse(st, h))
    ELSE [st EXCEPT !.objs[h] = [NewObj(@.kind) EXCEPT !.live = FALSE,
                                                       !.dels = st.objs[h].dels + 1]]

\* ------------------------------------------------------------------ grid
RECURSIVE DrawLines(_, _, _, _)
DrawLines(st, parent, line_count, i) ==
    IF i >= line_count THEN st
    ELSE LET end_x == Int16(st.center_x + ScaledTrunc(st.radius, GridCosTab[i + 1], 1))
             end_y == Int16(st.center_y - ScaledTrunc(st.radius, GridSinTab[i + 1], 1))
             c     == lv_obj_create(st, "line")
             line  == Len(c.objs)
         IN DrawLines(lv_line_set_points(c, line, st.center_x, st.center_y, end_x, end_y),
                      parent, line_count, i + 1)

RECURSIVE DrawArcs(_, _, _, _, _)
DrawArcs(st, parent, band_radius, band_count, band) ==
    IF band > band_count THEN st
    ELSE LET current_arc_radius == Int16(band_radius * band)
             c     == lv_obj_create(st, "arc")
             h_arc == Len(c.objs)
             sized == lv_obj_set_size(c, h_arc, current_arc_radius * 2, current_arc_radius * 2)
             posed == lv_obj_set_pos(sized, h_arc, st.center_x - current_arc_radius,
                                     st.center_y - current_arc_radius)
         IN DrawArcs(posed, parent, band_radius, band_count, band + 1)

BandRadius(r, band_count) == Int16(TruncDiv(r, band_count))

\* int16_t band_radius = radius / band_count comes first: with band_count = 0
\* it is an integer division by zero
lv_radar_screen_draw(st, parent, band_count, line_count) ==
    IF band_count = 0 THEN Fault(st, "div_zero")
    ELSE LET band_radius == BandRadius(st.radius, band_count)
         IN DrawArcs(DrawLines(st, parent, line_count, 0), parent, band_radius,
                     band_count, 1)

\* returns the memory after the call; the container is the first object it adds
lv_radar_screen_create(st, parent, width, height) ==
    LET c          == lv_obj_create(st, "cont")
        radar      == Len(c.objs)
        sized      == lv_obj_set_size(c, radar, width, height)
        geo        == [sized EXCEPT !.center_x = Int16(TruncDiv(width, 2)),
                                    !.center_y = Int16(height),
                                    !.radius   = Int16(height - Margin)]
    IN lv_radar_screen_draw(geo, radar, GridBands, GridLines)

\* ----------------------------------------------------------------- sweep
\* a variant that lets the input through unclamped
ClampAngle_none(angle) == angle

ClampAngle(angle) == IF angle > MaxAngle THEN MaxAngle ELSE angle

\* a variant that starts the trail on the sweep line: i * 8 instead of (i + 1) * 8
ShadowAngle_lead(angle, i) ==
    LET shadow_angle == angle - (i * ShadowStep)
    IN IF shadow_angle < 0 THEN 0 ELSE shadow_angle

\* float shadow_angle = angle - ((i + 1) * 8); if (shadow_angle < 0) shadow_angle = 0;
ShadowAngle(angle, i) ==
    LET shadow_angle == angle - ((i + 1) * ShadowStep)
    IN IF shadow_angle < 0 THEN 0 ELSE shadow_angle

\* a variant whose step makes the last opacity wrap around
ShadowOpacity_wrap(i) == UInt8(OpaCover - (i * 64))

\* uint8_t opacity = 255 - (i * 50);
ShadowOpacity(i) == UInt8(OpaCover - (i * OpaStep))

RECURSIVE ShadowLoop(_, _, _, _)
ShadowLoop(st, s, angle, i) ==
    IF i >= SHADOW_COUNT THEN st
    ELSE LET sw           == st.sweeps[s]
             shadow_angle == ShadowAngle(angle, i)
             shadow_end_x == EndX(sw.center_x, sw.radius, shadow_angle)
             shadow_end_y == EndY(sw.center_y, sw.radius, shadow_angle)
             made == IF sw.shadow_lines[i + 1] = NULL
                     THEN LET c == lv_obj_create(st, "line")
                          IN [c EXCEPT !.sweeps[s].shadow_lines[i + 1] = Len(c.objs)]
                     ELSE st
             line == made.sweeps[s].shadow_lines[i + 1]
             dimmed == lv_obj_set_style_line_opa(made, line, ShadowOpacity(i))
         IN ShadowLoop(lv_line_set_points(dimmed, line, sw.center_x, sw.center_y,
                                          shadow_end_x, shadow_end_y),
                       s, angle, i + 1)

\* a variant that creates a new sweep line on every update
lv_radar_sweep_update_fresh(st, s, angle_in) ==
    IF st.sweeps[s].mem # "alloc" THEN Fault(st, "freed_sweep")
    ELSE LET angle == ClampAngle(angle_in)
             sw    == st.sweeps[s]
             end_x == EndX(sw.center_x, sw.radius, angle)
             end_y == EndY(sw.center_y, sw.radius, angle)
             set   == [st EXCEPT !.sweeps[s].current_angle = angle,
                                 !.sweeps[s].angle_in = angle_in]
             made  == LET c == lv_obj_create(set, "line")
                      IN [c EXCEPT !.sweeps[s].sweep_line = Len(c.objs)]
             drawn == lv_line_set_points(made, made.sweeps[s].sweep_line,
                                         sw.center_x, sw.center_y, end_x, end_y)
         IN ShadowLoop(drawn, s, angle, 0)

lv_radar_sweep_update(st, s, angle_in) ==
    IF st.sweeps[s].mem # "alloc" THEN Fault(st, "freed_sweep")
    ELSE LET angle == ClampAngle(angle_in)
             sw    == st.sweeps[s]
             end_x == EndX(sw.center_x, sw.radius, angle)
             end_y == EndY(sw.center_y, sw.radius, angle)
             set   == [st EXCEPT !.sweeps[s].current_angle = angle,
                                 !.sweeps[s].angle_in = angle_in]
             made  == IF sw.sweep_line = NULL
                      THEN LET c == lv_obj_create(set, "line")
                           IN [c EXCEPT !.sweeps[s].sweep_line = Len(c.objs)]
                      ELSE set
             drawn == lv_line_set_points(made, made.sweeps[s].sweep_line,
                                         sw.center_x, sw.center_y, end_x, end_y)
         IN ShadowLoop(drawn, s, angle, 0)

\* a variant that drops the value the animation hands over
lv_radar_sweep_anim_cb_drop(st, var, value) == st

lv_radar_sweep_anim_cb(st, var, value) == lv_radar_sweep_update(st, var, UInt16(value))

NoAnim == [run |-> FALSE, act |-> 0, phase |-> "none", loop |-> FALSE]

\* lv_anim_start with values 0..180, playback and (when loop) infinite repeat
StartAnim(loop) == [run |-> TRUE, act |-> 0, phase |-> "fwd", loop |-> loop]

BlankSweep(parent, cx, cy, r) ==
    [mem |-> "alloc", held |-> TRUE, parent |-> parent,
     center_x |-> cx, center_y |-> cy, radius |-> r, current_angle |-> 0,
     angle_in |-> 0,
     sweep_line |-> NULL, shadow_lines |-> [i \in 1..SHADOW_COUNT |-> NULL]]

\* free(sweep): what the memory holds afterwards is indeterminate and not kept
FreedSweep == [BlankSweep(NULL, 0, 0, 0) EXCEPT !.mem = "freed", !.held = FALSE]

\* the new sweep is the last element of sweeps
lv_radar_sweep_create(st, parent, loop) ==
    LET alloc == [st EXCEPT !.sweeps = Append(@, BlankSweep(parent, st.center_x,
                                                            st.center_y, st.radius)),
                            !.anims  = Append(@, NoAnim)]
        sweep == Len(alloc.sweeps)
        first == lv_radar_sweep_update(alloc, sweep, 0)
    IN [first EXCEPT !.anims[sweep] = StartAnim(loop)]

\* a variant that deletes the shadow handles without looking at them
RECURSIVE DeleteShadows_unchecked(_, _, _)
DeleteShadows_unchecked(st, s, i) ==
    IF i >= SHADOW_COUNT THEN st
    ELSE DeleteShadows_unchecked(lv_obj_del(st, st.sweeps[s].shadow_lines[i + 1]), s, i + 1)

RECURSIVE DeleteShadows(_, _, _)
DeleteShadows(st, s, i) ==
    IF i >= SHADOW_COUNT THEN st
    ELSE DeleteShadows(IF st.sweeps[s].shadow_lines[i + 1] # NULL
                       THEN lv_obj_del(st, st.sweeps[s].shadow_lines[i + 1])
                       ELSE st,
                       s, i + 1)

lv_radar_sweep_delete(st, s) ==
    IF s = NULL THEN st
    ELSE LET line  == IF st.sweeps[s].sweep_line # NULL
                      THEN lv_obj_del(st, st.sweeps[s].sweep_line)
                      ELSE st
             lines == DeleteShadows(line, s, 0)
         IN [lines EXCEPT !.sweeps[s] = FreedSweep]

\* --------------------------------------------------------------- markers
\* meters_per_pixel = (band_count * 2.0f) / radius; pixel_distance = distance /
\* meters_per_pixel.  Exactly: pixel_distance = PixelNum / PixelDen pixels.
PixelNum(distance, r) == distance * r

PixelDen(band_count) == DistScale * MetersPerBand * band_count

\* center_x + (int16_t)(pixel_distance * cosf(angle_rad))
MarkerX(cx, r, band_count, marker) ==
    Int16(cx + ScaledTrunc(PixelNum(marker.distance, r), CosQ(marker.angle),
                           PixelDen(band_count)))

MarkerY(cy, r, band_count, marker) ==
    Int16(cy - ScaledTrunc(PixelNum(marker.distance, r), SinQ(marker.angle),
                           PixelDen(band_count)))

\* &markers[i] for i beyond the caller's array reads and writes foreign memory:
\* junk stands for what is read there
InArray(st, i) == i < Len(st.markers)

RECURSIVE AddLoop(_, _, _, _, _, _)
AddLoop(st, parent, band_count, marker_count, junk, i) ==
    IF i >= marker_count THEN st
    ELSE LET marker   == IF InArray(st, i) THEN st.markers[i + 1] ELSE junk
             marker_x == MarkerX(st.center_x, st.radius, band_count, marker)
             marker_y == MarkerY(st.center_y, st.radius, band_count, marker)
             c        == lv_obj_create(st, "label")
             icon     == Len(c.objs)
             posed    == lv_obj_set_pos(c, icon, marker_x - IconHalf, marker_y - IconHalf)
             stored   == IF InArray(st, i)
                         THEN [posed EXCEPT !.markers[i + 1].icon = icon]
                         ELSE Fault(posed, "oob_marker")
         IN AddLoop(stored, parent, band_count, marker_count, junk, i + 1)

lv_radar_add_markers(st, parent, band_count, marker_count, junk) ==
    AddLoop(st, parent, band_count, marker_count, junk, 0)

RECURSIVE UpdateLoop(_, _, _, _, _)
UpdateLoop(st, band_count, marker_count, junk, i) ==
    IF i >= marker_count THEN st
    ELSE LET marker   == IF InArray(st, i) THEN st.markers[i + 1] ELSE junk
             marker_x == MarkerX(st.center_x, st.radius, band_count, marker)
             marker_y == MarkerY(st.center_y, st.radius, band_count, marker)
             moved    == IF InArray(st, i)
                         THEN lv_obj_set_pos(st, marker.icon, marker_x - IconHalf,
                                             marker_y - IconHalf)
                         ELSE Fault(st, "oob_marker")
         IN UpdateLoop(moved, band_count, marker_count, junk, i + 1)

lv_radar_update_markers(st, band_count, marker_count, junk) ==
    UpdateLoop(st, band_count, marker_count, junk, 0)

\* a variant that deletes the icon and leaves its handle in the slot
RECURSIVE RemoveLoop_keep(_, _, _)
RemoveLoop_keep(st, marker_count, i) ==
    IF i >= marker_count THEN st
    ELSE LET removed == IF ~InArray(st, i) THEN Fault(st, "oob_marker")
                        ELSE IF st.markers[i + 1].icon # NULL
                        THEN lv_obj_del(st, st.markers[i + 1].icon)
                        ELSE st
         IN RemoveLoop_keep(removed, marker_count, i + 1)

RECURSIVE RemoveLoop(_, _, _)
RemoveLoop(st, marker_count, i) ==
    IF i >= marker_count THEN st
    ELSE LET removed == IF ~InArray(st, i) THEN Fault(st, "oob_marker")
                        ELSE IF st.markers[i + 1].icon # NULL
                        THEN [lv_obj_del(st, st.markers[i + 1].icon)
                                 EXCEPT !.markers[i + 1].icon = NULL]
                        ELSE st
         IN RemoveLoop(removed, marker_count, i + 1)

lv_radar_remove_markers(st, marker_count) == RemoveLoop(st, marker_count, 0)

\* ----------------------------------------------------------------- panel
PanelMarkers ==
    [i \in 1..MarkerSlots |->
        [icon |-> NULL, distance |-> PanelTargets[i].distance, angle |-> PanelTargets[i].angle]]

\* the sweep pointer and the marker array are locals of the function: the
\* sweep is not held by anyone afterwards and the array is gone
lv_radar_panel_init(st, xRes, yRes) ==
    LET scr    == lv_obj_create(st, "cont")
        radar  == Len(scr.objs) + 1
        screen == lv_radar_screen_create(scr, Len(scr.objs), xRes, yRes)
        swept  == lv_radar_sweep_create(screen, radar, TRUE)
        lost   == [swept EXCEPT !.sweeps[Len(swept.sweeps)].held = FALSE]
        local  == [lost EXCEPT !.markers = PanelMarkers]
        added  == lv_radar_add_markers(local, radar, PanelBands, MarkerSlots, PanelMarkers[1])
    IN [added EXCEPT !.markers = st.markers]

\* ------------------------------------------------------------- animation
\* the value LVGL's linear path hands to the exec callback after act ticks
AnimValue(act) == (MaxAngle * act) \div AnimTicks

\* one timer tick of a running animation: forward 0..180, playback 180..0,
\* then the repeat delay and again (loop) or the end of the animation
AnimAdvance(a) ==
    IF a.phase = "fwd"
    THEN [a EXCEPT !.act = a.act + 1,
                   !.phase = IF a.act + 1 = AnimTicks THEN "back" ELSE "fwd"]
    ELSE IF a.phase = "back"
    THEN [a EXCEPT !.act = a.act - 1,
                   !.phase = IF a.act - 1 > 0 THEN "back"
                             ELSE IF a.loop THEN "delay" ELSE "done",
                   !.run = (a.act - 1 > 0) \/ a.loop]
    ELSE [a EXCEPT !.act = 0, !.phase = "fwd"]

\* ----------------------------------------------------------------- state
Mem ==
    [center_x |-> center_x, center_y |-> center_y, radius |-> radius,
     objs |-> objs, sweeps |-> sweeps, anims |-> anims, markers |-> markers,
     faults |-> faults, ub |-> FALSE]

\* the memory after a call; undefined behaviour may or may not end the program
Commit(st) ==
    /\ center_x' = st.center_x
    /\ center_y' = st.center_y
    /\ radius' = st.radius
    /\ objs' = st.objs
    /\ sweeps' = st.sweeps
    /\ anims' = st.anims
    /\ markers' = st.markers
    /\ faults' = st.faults
    /\ crashed' \in (IF st.ub THEN BOOLEAN ELSE {FALSE})

Init ==
    /\ center_x = 0
    /\ center_y = 0
    /\ radius = 0
    /\ objs = << >>
    /\ sweeps = << >>
    /\ anims = << >>
    /\ markers = [i \in 1..MarkerSlots |->
                     [icon |-> NULL, distance |-> AppTargets[i].distance,
                      angle |-> AppTargets[i].angle]]
    /\ radar_cont = NULL
    /\ faults = {}
    /\ crashed = FALSE
    /\ lastOp = [op |-> "init", arg |-> 0]
    /\ nScreens = 0
    /\ sensor = [pc |-> "init", init |-> "none", begin |-> "none", target |-> "none"]

\* a call that executed undefined behaviour is the last one explored: nothing
\* can be said about the program after it
Running == ~crashed /\ faults = {}

\* the icons created so far, deleted or not
Icons == Cardinality({ h \in 1..Len(objs) : objs[h].kind = "label" })

HeldSweeps == { s \in 1..Len(sweeps) : sweeps[s].held /\ sweeps[s].mem = "alloc" }

ScreenCreate(size) ==
    /\ Running
    /\ nScreens < MaxScreens
    /\ Commit(lv_radar_screen_create(Mem, NULL, size[1], size[2]))
    /\ radar_cont' = Len(objs) + 1
    /\ nScreens' = nScreens + 1
    /\ lastOp' = [op |-> "screen_create", arg |-> 0]
    /\ UNCHANGED sensor

PanelInit(size) ==
    /\ Running
    /\ Icons + MarkerSlots <= MaxIcons
    /\ nScreens < MaxScreens
    /\ Len(sweeps) < MaxSweeps
    /\ Commit(lv_radar_panel_init(Mem, size[1], size[2]))
    /\ nScreens' = nScreens + 1
    /\ lastOp' = [op |-> "panel_init", arg |-> 0]
    /\ UNCHANGED << radar_cont, sensor >>

\* the application keeps one sweep pointer: it creates a sweep when it holds
\* none, and holds none again once it has deleted the one it had
SweepCreate(loop) ==
    /\ Running
    /\ HeldSweeps = {}
    /\ Len(sweeps) < MaxSweeps
    /\ Commit(lv_radar_sweep_create(Mem, radar_cont, loop))
    /\ UNCHANGED << radar_cont, lastOp, nScreens, sensor >>

\* a caller that fills an lv_radar_sweep_t by hand and has created only the
\* first k of its six lines so far
RECURSIVE PartialLines(_, _, _)
PartialLines(st, s, k) ==
    IF k = 0 THEN st
    ELSE LET before == PartialLines(st, s, k - 1)
             c      == lv_obj_create(before, "line")
         IN IF k = 1 THEN [c EXCEPT !.sweeps[s].sweep_line = Len(c.objs)]
            ELSE [c EXCEPT !.sweeps[s].shadow_lines[k - 1] = Len(c.objs)]

SweepPartial(k) ==
    /\ Running
    /\ HeldSweeps = {}
    /\ Len(sweeps) < MaxSweeps
    /\ LET alloc == [Mem EXCEPT !.sweeps = Append(@, BlankSweep(radar_cont, center_x,
                                                                center_y, radius)),
                                !.anims  = Append(@, NoAnim)]
       IN Commit(PartialLines(alloc, Len(alloc.sweeps), k))
    /\ UNCHANGED << radar_cont, lastOp, nScreens, sensor >>

SweepUpdate(s, angle) ==
    /\ Running
    /\ s \in HeldSweeps
    /\ Commit(lv_radar_sweep_update(Mem, s, angle))
    /\ UNCHANGED << radar_cont, lastOp, nScreens, sensor >>

AnimTick(s) ==
    /\ Running
    /\ s \in 1..Len(anims)
    /\ anims[s].run
    /\ LET next  == AnimAdvance(anims[s])
           moved == [Mem EXCEPT !.anims[s] = next]
       IN Commit(IF anims[s].phase = "delay" THEN moved
                 ELSE lv_radar_sweep_anim_cb(moved, s, AnimValue(next.act)))
    /\ UNCHANGED << radar_cont, lastOp, nScreens, sensor >>

SweepDelete(s) ==
    /\ Running
    /\ s \in HeldSweeps \cup {NULL}
    /\ Commit(lv_radar_sweep_delete(Mem, s))
    /\ UNCHANGED << radar_cont, lastOp, nScreens, sensor >>

AddMarkers(marker_count, junk) ==
    /\ Running
    /\ Icons + marker_count <= MaxIcons
    /\ Commit(lv_radar_add_markers(Mem, radar_cont, PanelBands, marker_count, junk))
    /\ lastOp' = [op |-> "add_markers", arg |-> marker_count]
    /\ UNCHANGED << radar_cont, nScreens, sensor >>

UpdateMarkers(marker_count, junk) ==
    /\ Running
    /\ Commit(lv_radar_update_markers(Mem, PanelBands, marker_count, junk))
    /\ lastOp' = [op |-> "update_markers", arg |-> marker_count]
    /\ UNCHANGED << radar_cont, nScreens, sensor >>

RemoveMarkers(marker_count) ==
    /\ Running
    /\ Commit(lv_radar_remove_markers(Mem, marker_count))
    /\ lastOp' = [op |-> "remove_markers", arg |-> marker_count]
    /\ UNCHANGED << radar_cont, nScreens, sensor >>

\* the application copies a new target snapshot into its array
SetTargets(snap) ==
    /\ Running
    /\ markers' = [i \in 1..Len(markers) |->
                      [markers[i] EXCEPT !.distance = snap[i].distance,
                                         !.angle = snap[i].angle]]
    /\ UNCHANGED << center_x, center_y, radius, objs, sweeps, anims, radar_cont,
                    faults, crashed, lastOp, nScreens, sensor >>

Counts == 0..(MarkerSlots + 1)

\* what a read beyond the array may find; nothing is read there when the count fits
Junk(n) == IF n > MarkerSlots THEN Targets ELSE { AppTargets[1] }

\* the grids drawn so far
Grids == Cardinality({ h \in 1..Len(objs) : objs[h].kind = "arc" }) \div GridBands

\* a direct call of lv_radar_screen_draw on the radar container
ScreenDraw(band_count) ==
    /\ Running
    /\ radar_cont # NULL
    /\ Grids <= MaxScreens
    /\ Commit(lv_radar_screen_draw(Mem, radar_cont, band_count, GridLines))
    /\ lastOp' = [op |-> "screen_draw", arg |-> band_count]
    /\ UNCHANGED << radar_cont, nScreens, sensor >>

\* ---------------------------------------------------------- sensor worker
\* esp_err_t values radar_sensor_init and radar_sensor_begin may return
Returns == { "ESP_OK", "ESP_ERR_INVALID_ARG", "ESP_FAIL" }

\* what radar_sensor_update and target.detected say in one round of the loop
Readings == { "none", "absent", "detected" }

\* everything the UI context owns
uiVars == << center_x, center_y, radius, objs, sweeps, anims, markers,
             radar_cont, faults, crashed, lastOp, nScreens >>

\* a variant that goes on after a failed radar_sensor_init
AfterInit_fallthrough(ret) == "begin"

\* if (ret != ESP_OK) { ...log...; vTaskDelete(NULL); }: the task ends there
AfterInit(ret) == IF ret # "ESP_OK" THEN "deleted" ELSE "begin"

AfterBegin(ret) == IF ret # "ESP_OK" THEN "deleted" ELSE "config"

\* ret = radar_sensor_init(&radar, UART_NUM_1, 39, 38)
SensorInit(ret) ==
    /\ Running
    /\ sensor.pc = "init"
    /\ sensor' = [sensor EXCEPT !.pc = AfterInit(ret), !.init = ret]
    /\ UNCHANGED uiVars

\* ret = radar_sensor_begin(&radar, 256000)
SensorBegin(ret) ==
    /\ Running
    /\ sensor.pc = "begin"
    /\ sensor' = [sensor EXCEPT !.pc = AfterBegin(ret), !.begin = ret]
    /\ UNCHANGED uiVars

\* radar_sensor_set_retention_times(&radar, 10000, 500)
SensorConfig ==
    /\ Running
    /\ sensor.pc = "config"
    /\ sensor' = [sensor EXCEPT !.pc = "poll"]
    /\ UNCHANGED uiVars

\* one round of while (1): radar_sensor_update, radar_sensor_get_target and
\* the log lines; the target is a local of the round
SensorPoll(reading) ==
    /\ Running
    /\ sensor.pc = "poll"
    /\ sensor' = [sensor EXCEPT !.pc = "wait", !.target = reading]
    /\ UNCHANGED uiVars

\* vTaskDelay(pdMS_TO_TICKS(500))
SensorWait ==
    /\ Running
    /\ sensor.pc = "wait"
    /\ sensor' = [sensor EXCEPT !.pc = "poll", !.target = "none"]
    /\ UNCHANGED uiVars

NextScreen == \E size \in Sizes : ScreenCreate(size)

NextConfig ==
    \/ \E size \in Sizes \cup BadSizes : ScreenCreate(size)
    \/ \E band_count \in BandCounts : ScreenDraw(band_count)

NextSensor ==
    \/ \E ret \in Returns : SensorInit(ret)
    \/ \E ret \in Returns : SensorBegin(ret)
    \/ SensorConfig
    \/ \E reading \in Readings : SensorPoll(reading)
    \/ SensorWait

NextPanel == \E size \in Sizes : PanelInit(size)

NextSweep ==
    \/ \E loop \in BOOLEAN : SweepCreate(loop)
    \/ \E k \in 0..SHADOW_COUNT : SweepPartial(k)
    \/ \E s \in 1..MaxSweeps, angle \in AngleInputs : SweepUpdate(s, angle)
    \/ \E s \in 1..MaxSweeps : AnimTick(s)
    \/ \E s \in 0..MaxSweeps : SweepDelete(s)

NextMarkers ==
    \/ \E n \in Counts : \E junk \in Junk(n) : AddMarkers(n, junk)
    \/ \E n \in Counts : \E junk \in Junk(n) : UpdateMarkers(n, junk)
    \/ \E n \in Counts : RemoveMarkers(n)
    \/ \E snap \in Snapshots : SetTargets(snap)

Next == NextScreen \/ NextConfig \/ NextPanel \/ NextSweep \/ NextMarkers \/ NextSensor

Spec == Init /\ [][Next]_vars

\* The sweep calls never read or write the marker array and the marker calls
\* never read or write the sweeps or the animations; both read the geometry
\* the screen calls set and append to the display objects.  The two parts are
\* therefore explored on their own.

\* the sweep engine: the screen, the panel and the sweep calls
SpecSweep == Init /\ [][NextScreen \/ NextPanel \/ NextSweep]_vars

\* the marker registry: the screen and the marker calls on the application's array
SpecMarkers == Init /\ [][NextScreen \/ NextMarkers]_vars

\* the grid configurations: any screen size and direct draws, with the markers
SpecConfig == Init /\ [][NextConfig \/ NextMarkers]_vars

\* the sensor worker beside the UI context that runs the panel and its sweep
SpecSensor ==
    Init /\ [][NextScreen \/ NextPanel \/ (\E s \in 1..MaxSweeps : AnimTick(s)) \/ NextSensor]_vars

\* the animation: LVGL's timer runs on the UI context and keeps calling a
\* running animation
NextAnim ==
    \/ NextScreen
    \/ NextPanel
    \/ \E loop \in BOOLEAN : SweepCreate(loop)
    \/ \E s \in 1..MaxSweeps, angle \in AngleInputs : SweepUpdate(s, angle)
    \/ \E s \in 1..MaxSweeps : AnimTick(s)
    \/ \E s \in 0..MaxSweeps : SweepDelete(s)

\* the step AnimTick(s) as it shows on the animations: within NextAnim the
\* steps that advance animation s are exactly the AnimTick(s) steps, and both
\* are enabled in the same states
TimerFires(s) ==
    /\ Running
    /\ s \in 1..Len(anims)
    /\ anims[s].run
    /\ anims' = [anims EXCEPT ![s] = AnimAdvance(anims[s])]

SpecAnim ==
    Init /\ [][NextAnim]_vars /\ \A s \in 1..MaxSweeps : WF_anims(TimerFires(s))

\* ================================================================ claims
AllocSweeps == { s \in 1..Len(sweeps) : sweeps[s].mem = "alloc" }

\* the six lines of a sweep that has been updated at least once
Updated(s) ==
    /\ sweeps[s].sweep_line # NULL
    /\ \A j \in 1..SHADOW_COUNT : sweeps[s].shadow_lines[j] # NULL

\* what a sweep shows: its angle and the end points of its lines
Shown(st, s) ==
    [angle   |-> st.sweeps[s].current_angle,
     line    |-> << st.objs[st.sweeps[s].sweep_line].x, st.objs[st.sweeps[s].sweep_line].y >>,
     shadows |-> [j \in 1..SHADOW_COUNT |->
                    << st.objs[st.sweeps[s].shadow_lines[j]].x,
                       st.objs[st.sweeps[s].shadow_lines[j]].y >>]]

LiveIcons == { h \in 1..Len(objs) : objs[h].kind = "label" /\ objs[h].live }

\* C1: no animation callback ever runs against a sweep whose memory has been
\* released, because teardown stops the animation before it frees the sweep.
C1_NoCallbackOnFreedSweep == "freed_sweep" \notin faults

\* C2: the stored angle of every sweep is within 0..180, and an update with an
\* input above 180 stores the same angle and draws the same sweep and shadow
\* end points as an update with 180.
C2_AngleClamped ==
    \A s \in AllocSweeps :
        /\ sweeps[s].current_angle \in 0..MaxAngle
        /\ sweeps[s].angle_in > MaxAngle => sweeps[s].current_angle = MaxAngle
        /\ \A a \in { x \in AngleInputs : x > MaxAngle } :
              Shown(lv_radar_sweep_update(Mem, s, a), s)
                = Shown(lv_radar_sweep_update(Mem, s, MaxAngle), s)

C2_Witness ==
    \E s \in AllocSweeps :
        /\ sweeps[s].angle_in = 65535
        /\ sweeps[s].radius > 0
        /\ sweeps[s].current_angle = MaxAngle
        /\ objs[sweeps[s].sweep_line].x = sweeps[s].center_x - sweeps[s].radius

\* C3: after an update at angle a, shadow j is drawn at the angle
\* max(0, a - 8 * (j + 1)); for a = 10 that is 2 for shadow 0 and 0 for the rest.
C3_ShadowAngles ==
    \A s \in AllocSweeps : Updated(s) =>
        \A j \in 0..(SHADOW_COUNT - 1) :
            LET a    == sweeps[s].current_angle
                d    == a - (8 * (j + 1))
                want == IF d > 0 THEN d ELSE 0
                line == objs[sweeps[s].shadow_lines[j + 1]]
            IN /\ ShadowAngle(a, j) = want
               /\ line.x = EndX(sweeps[s].center_x, sweeps[s].radius, want)
               /\ line.y = EndY(sweeps[s].center_y, sweeps[s].radius, want)
               /\ (a = 10) => (want = IF j = 0 THEN 2 ELSE 0)

C3_Witness ==
    \E s \in AllocSweeps :
        /\ Updated(s)
        /\ sweeps[s].current_angle = 10
        /\ sweeps[s].radius = 310
        /\ objs[sweeps[s].shadow_lines[1]].x = sweeps[s].center_x + 309
        /\ objs[sweeps[s].shadow_lines[1]].y = sweeps[s].center_y - 10
        /\ \A j \in 2..SHADOW_COUNT :
              /\ objs[sweeps[s].shadow_lines[j]].x = sweeps[s].center_x + 310
              /\ objs[sweeps[s].shadow_lines[j]].y = sweeps[s].center_y

\* C4: the opacity of shadow j is 255 - 50 * j without wrap-around, that is
\* 255, 205, 155, 105, 55: strictly decreasing, never below 55, at every angle.
C4_ShadowOpacity ==
    \A s \in AllocSweeps : Updated(s) =>
        /\ \A j \in 0..(SHADOW_COUNT - 1) :
              /\ objs[sweeps[s].shadow_lines[j + 1]].opa = << 255, 205, 155, 105, 55 >>[j + 1]
              /\ objs[sweeps[s].shadow_lines[j + 1]].opa >= 55
        /\ \A j \in 1..(SHADOW_COUNT - 1) :
              objs[sweeps[s].shadow_lines[j + 1]].opa < objs[sweeps[s].shadow_lines[j]].opa

C4_Witness ==
    \E s \in AllocSweeps :
        /\ Updated(s)
        /\ sweeps[s].current_angle = 90
        /\ objs[sweeps[s].shadow_lines[1]].opa = 255
        /\ objs[sweeps[s].shadow_lines[SHADOW_COUNT]].opa = 55

\* the handles a sweep structure holds
SweepHandles(sw) ==
    ({ sw.sweep_line } \cup { sw.shadow_lines[j] : j \in 1..SHADOW_COUNT }) \ { NULL }

\* C8: lv_radar_sweep_delete releases the sweep line and every shadow line the
\* sweep holds exactly once and frees the structure; it does nothing for a NULL
\* sweep, and on a partially initialised sweep it skips the NULL handles and
\* never hands one to the display.
C8_DeleteReleasesOnce ==
    /\ [](lv_radar_sweep_delete(Mem, NULL) = Mem)
    /\ [](\A h \in 1..Len(objs) : objs[h].kind = "line" => objs[h].dels <= 1)
    /\ [][\A s \in 1..Len(sweeps) :
            (sweeps[s].mem = "alloc" /\ sweeps'[s].mem = "freed") =>
                /\ Len(objs') = Len(objs)
                /\ \A h \in 1..Len(objs) :
                      IF h \in SweepHandles(sweeps[s])
                      THEN objs[h].live /\ ~objs'[h].live /\ objs'[h].dels = 1
                      ELSE objs'[h] = objs[h]
                /\ faults' = faults
                /\ ~crashed']_vars

\* a sweep of which only the sweep line and two shadows existed has been deleted
C8_Witness ==
    /\ \E s \in 1..Len(sweeps) : sweeps[s].mem = "freed"
    /\ Cardinality({ h \in 1..Len(objs) :
                       objs[h].kind = "line" /\ ~objs[h].live /\ objs[h].dels = 1 }) = 3
    /\ faults = {}

Populated == { i \in 1..Len(markers) : markers[i].icon # NULL }

\* C5: applying a marker list creates an icon only for a slot that has none, so
\* there are never more live icons than populated slots and every live icon is
\* the icon of some slot.
C5_NoDuplicateIcons ==
    faults = {} =>
        /\ Cardinality(LiveIcons) <= Cardinality(Populated)
        /\ \A h \in LiveIcons : \E i \in Populated : markers[i].icon = h

\* C6: after a call with marker_count = 0 no marker icon is live on the display
\* and the icon handle of every slot is cleared.
C6_ZeroTargetsClear ==
    (/\ lastOp.op \in { "add_markers", "update_markers", "remove_markers" }
     /\ lastOp.arg = 0) =>
        /\ LiveIcons = {}
        /\ Populated = {}

\* C7: no marker call hands a cleared (NULL) or released icon handle to the
\* display surface.
C7_HandlesChecked == "null_handle" \notin faults /\ "stale_handle" \notin faults

\* the arc drawn for band k by the last lv_radar_screen_create
BandArc(k) == objs[radar_cont + GridLines + k]

\* the slots the last call placed on the display
Placed ==
    IF lastOp.op \in { "add_markers", "update_markers" } /\ faults = {}
    THEN { i \in 1..Len(markers) : i <= lastOp.arg }
    ELSE {}

\* C9: a marker placed at 2 * k meters lies at the pixel distance of band k of
\* the grid it is drawn on: distance / (band_count * 2 / radius) = band_radius * k.
C9_MarkerScaleMatchesGrid ==
    (radar_cont # NULL /\ radius > 0) =>
        \A i \in Placed : \A k \in 1..GridBands :
            markers[i].distance = MetersPerBand * k * DistScale =>
                PixelNum(markers[i].distance, radius)
                  = (BandArc(k).w \div 2) * PixelDen(GridBands)

\* C10: a marker count above the size of the marker pool drops the excess
\* markers without touching memory beyond the pool, and there are never more
\* live marker icons than the pool has slots.
C10_PoolBound ==
    /\ "oob_marker" \notin faults
    /\ Cardinality(LiveIcons) <= MarkerSlots

\* the lines and arcs on the display
GridObjs == { h \in 1..Len(objs) : objs[h].kind \in {"line", "arc"} }

\* C11: a configuration with a zero or negative radius or a zero band_count is
\* refused when the radar is built: no line or arc is created for it and no
\* division by the zero band_count is executed.
C11_BadConfigRejected ==
    /\ (radar_cont # NULL /\ radius <= 0) => GridObjs = {}
    /\ "div_zero" \notin faults

\* C12: the sensor worker never touches what the UI context owns (no display
\* primitive, no sweep, no marker, no geometry changes in a step of the
\* worker); it reaches its polling loop only after both initialisation calls
\* returned ESP_OK, a failed call ends it for good, and once in the loop it only
\* polls and waits.
C12_SensorLeavesDisplay ==
    /\ [][sensor' # sensor => UNCHANGED uiVars]_vars
    /\ [](sensor.pc \in {"config", "poll", "wait"}
             => sensor.init = "ESP_OK" /\ sensor.begin = "ESP_OK")
    /\ []((sensor.init \notin {"none", "ESP_OK"} \/ sensor.begin \notin {"none", "ESP_OK"})
             => sensor.pc = "deleted")
    /\ [][sensor.pc = "deleted" => sensor'.pc = "deleted"]_vars
    /\ [][sensor.pc \in {"poll", "wait"} => sensor'.pc \in {"poll", "wait"}]_vars

C12_Witness ==
    /\ sensor.pc = "wait"
    /\ sensor.target = "detected"
    /\ \E s \in 1..Len(sweeps) : sweeps[s].mem = "alloc" /\ sweeps[s].current_angle = MaxAngle
    /\ \E h \in 1..Len(objs) : objs[h].kind = "label" /\ objs[h].live

\* the line primitives created so far, deleted or not
LineObjs == { h \in 1..Len(objs) : objs[h].kind = "line" }

\* the sweeps lv_radar_sweep_create made and nobody has deleted
CreatedSweeps == { s \in AllocSweeps : anims[s].phase # "none" }

\* handle j of a sweep structure: 0 is the sweep line, 1..5 the shadow lines
Handle(sw, j) == IF j = 0 THEN sw.sweep_line ELSE sw.shadow_lines[j]

\* the handle slots that are NULL now and hold a handle after the step
NewHandles ==
    { p \in AllocSweeps \X (0..SHADOW_COUNT) :
         /\ sweeps'[p[1]].mem = "alloc"
         /\ Handle(sweeps[p[1]], p[2]) = NULL
         /\ Handle(sweeps'[p[1]], p[2]) # NULL }

\* C13: the sweep line and the five shadow lines are each created once, on the
\* first update that finds the handle NULL, and reused afterwards: a sweep made
\* by lv_radar_sweep_create holds six distinct live lines, a handle that is set
\* never changes or returns to NULL while the sweep exists, and an update or an
\* animation tick creates a line only for a handle that was NULL.
C13_LinesCreatedOnce ==
    /\ [](\A s \in CreatedSweeps :
             /\ Cardinality(SweepHandles(sweeps[s])) = SHADOW_COUNT + 1
             /\ \A h \in SweepHandles(sweeps[s]) : objs[h].kind = "line" /\ objs[h].live)
    /\ [][\A s \in AllocSweeps :
             sweeps'[s].mem = "alloc" =>
                /\ sweeps[s].sweep_line # NULL
                      => sweeps'[s].sweep_line = sweeps[s].sweep_line
                /\ \A j \in 1..SHADOW_COUNT :
                      sweeps[s].shadow_lines[j] # NULL
                         => sweeps'[s].shadow_lines[j] = sweeps[s].shadow_lines[j]]_vars
    /\ [][(Len(sweeps') = Len(sweeps) /\ nScreens' = nScreens) =>
             Cardinality(LineObjs') = Cardinality(LineObjs) + Cardinality(NewHandles)]_vars

C13_Witness ==
    \E s \in CreatedSweeps :
        /\ anims[s].phase = "back"
        /\ sweeps[s].current_angle = 10
        /\ nScreens = 1
        /\ Cardinality(LineObjs) = GridLines + SHADOW_COUNT + 1

\* a sweep whose animation repeats for ever, while the program runs
LoopSweep(s) ==
    Running /\ s \in AllocSweeps /\ anims[s].phase # "none" /\ anims[s].loop

\* a sweep whose animation plays once, while the program runs
OnceSweep(s) ==
    Running /\ s \in AllocSweeps /\ anims[s].phase # "none" /\ ~anims[s].loop

\* C14: the animation lv_radar_sweep_create starts moves the angle forward from
\* 0 to 180 and then back to 0, handing each value to the sweep; with loop it
\* repeats after the delay, so the angle is 180 again and again and 0 again and
\* again; without loop it ends after one forward and backward pass and updates
\* the angle no more.
C14_PingPong ==
    /\ \A s \in 1..MaxSweeps : []<>(LoopSweep(s) => sweeps[s].current_angle = MaxAngle)
    /\ \A s \in 1..MaxSweeps : []<>(LoopSweep(s) => sweeps[s].current_angle = 0)
    /\ \A s \in 1..MaxSweeps : []<>(OnceSweep(s) => anims[s].phase = "done")
    /\ [](\A s \in 1..Len(anims) :
             anims[s].phase = "done" => ~anims[s].run /\ ~ENABLED AnimTick(s))
    /\ [][\A s \in 1..Len(anims) :
             /\ anims[s].phase = "done" => anims'[s] = anims[s]
             /\ (anims'[s] # anims[s] /\ anims[s].phase \in {"fwd", "back"}
                   /\ sweeps[s].mem = "alloc") =>
                   /\ anims'[s].act = anims[s].act + (IF anims[s].phase = "fwd" THEN 1 ELSE -1)
                   /\ sweeps'[s].current_angle = (MaxAngle * anims'[s].act) \div AnimTicks
                   /\ anims[s].act = AnimTicks => anims[s].phase = "back"
             /\ (anims'[s] # anims[s] /\ anims[s].phase = "delay") =>
                   /\ anims[s].loop /\ anims'[s].phase = "fwd"
                   /\ sweeps'[s] = sweeps[s]]_vars

C14_Witness ==
    \E s \in 1..Len(anims) :
        /\ LoopSweep(s)
        /\ anims[s].phase = "delay"
        /\ sweeps[s].current_angle = 0
        /\ sweeps[s].radius > 0

\* C15: lv_radar_remove_markers deletes the icon of every populated slot among
\* the first marker_count slots once and sets its handle to NULL, leaves the
\* other slots, every distance and angle and every other display object as
\* they are, and a second remove over the same slots changes nothing; no icon
\* is ever deleted twice.
C15_RemoveReleasesOnce ==
    /\ \A h \in 1..Len(objs) : objs[h].kind = "label" => objs[h].dels <= 1
    /\ \A n \in 0..MarkerSlots :
          LET r       == lv_radar_remove_markers(Mem, n)
              removed == { markers[i].icon : i \in 1..n } \ { NULL }
          IN /\ r.faults = faults
             /\ Len(r.objs) = Len(objs)
             /\ \A i \in 1..MarkerSlots :
                   /\ r.markers[i].distance = markers[i].distance
                   /\ r.markers[i].angle = markers[i].angle
                   /\ i > n => r.markers[i] = markers[i]
                   /\ i <= n => r.markers[i].icon = NULL
             /\ \A h \in removed :
                   ~r.objs[h].live /\ r.objs[h].dels = objs[h].dels + 1
             /\ \A h \in (1..Len(objs)) \ removed : r.objs[h] = objs[h]
             /\ lv_radar_remove_markers(r, n) = r

C15_Witness ==
    /\ lastOp = [op |-> "remove_markers", arg |-> 1]
    /\ markers[1].icon = NULL
    /\ markers[2].icon # NULL
    /\ objs[markers[2].icon].live
    /\ \E h \in 1..Len(objs) : objs[h].kind = "label" /\ objs[h].dels = 1
    /\ faults = {}

\* C16: a sweep made by lv_radar_sweep_create always works with the center and
\* the radius the grid was drawn with and the markers are placed with, and that
\* radius is positive, whatever the order of the calls.
C16_GeometryShared ==
    \A s \in CreatedSweeps :
        /\ sweeps[s].center_x = center_x
        /\ sweeps[s].center_y = center_y
        /\ sweeps[s].radius = radius
        /\ sweeps[s].radius > 0

====
